---- MODULE Spec2Model ----
(***************************************************************************)
(* StoryJupyter: the chapter-versioned story store.                        *)
(*                                                                         *)
(* The model follows src/src/storyjupyter (class Story over a              *)
(* DummyStoryRepository, with the faker/LLM character generators) and, for *)
(* the SQL timeline, storyjupyter/persistence/repositories.py.             *)
(*                                                                         *)
(* Python objects are references: the repository's dict and the session's  *)
(* cache hold the same Character object, so characters live in a heap and  *)
(* both maps hold heap indexes.  None is modelled by 0 (chapters and times *)
(* start at 1), by NoLocation for the location and by NoDescription for a  *)
(* relationship's description.  A datetime is the number of its instant,   *)
(* read in UTC: t when it carries tzinfo=UTC, -t when it is naive (no      *)
(* tzinfo), so a naive and an aware datetime are never equal.              *)
(***************************************************************************)
EXTENDS Integers, Sequences, FiniteSets, TLC

(* ----------------------------- bounds ---------------------------------- *)
MaxChapter == 2
MaxTime == 2
MaxElems == 3
MaxStored == 2
MaxObjs == 2
MaxRows == 3
MaxCast == 2

Chapters == 1..MaxChapter
Times == 1..MaxTime
CharIds == {"alice", "bob"}
Locations == {"Cafe", "Street"}
Contents == {"text"}
RelTypes == {"sibling", "rival"}
NoLocation == "<None>"
NoDescription == "<None>"
Descriptions == {NoDescription, "twins"}
GeneratorTypes == {"faker", "llm", "markov"}
NoId == "<None>"
NoName == "<None>"
NoPronouns == "<None>"
PronounSubjects == {"he", "she", "they"}

VARIABLES
    heap,              \* the Character objects ever built, by reference
    repo_characters,   \* DummyStoryRepository._characters: str(id) -> reference
    repo_elements,     \* DummyStoryRepository._elements: list of StoryElement
    next_element_id,   \* the uuid4() stream of add_element
    current_stage,     \* Story._current_stage
    current_chapter,   \* Story._current_chapter
    current_time,      \* Story._current_time (0 = None)
    current_location,  \* Story._current_location
    character_cache,   \* Story._character_cache: id -> reference
    last_modified,     \* Story._metadata.last_modified, relative to the latest call
    last,              \* the last call: its name, arguments and outcome
    timeline_events,   \* SQL table timeline_events: rows in rowid order
    timeline_rowid,    \* the table's AUTOINCREMENT counter
    timeline_chapter,  \* TimelineRepository.chapter (0 = None)
    character_tables,  \* SQL tables characters and character_versions
    manager_time,      \* StoryTimelineManager._current_time (0 = None)
    manager_location,  \* StoryTimelineManager._current_location
    saved_time         \* SQL table current_time: its rows (the one with id = 1)

vars == <<heap, repo_characters, repo_elements, next_element_id, current_stage,
          current_chapter, current_time, current_location, character_cache,
          last_modified, last, timeline_events, timeline_rowid, timeline_chapter,
          character_tables, manager_time, manager_location, saved_time>>

managerVars == <<manager_time, manager_location, saved_time>>

legacyVars == <<timeline_events, timeline_rowid, timeline_chapter, character_tables,
                manager_time, manager_location, saved_time>>

dummyVars == <<heap, repo_characters, repo_elements, next_element_id>>

storyVars == <<current_stage, current_chapter, current_time, current_location,
               character_cache, last_modified>>

(* --------------------------- small helpers ----------------------------- *)
EmptyMap == [x \in {} |-> 0]

MapPut(m, k, v) == [x \in (DOMAIN m) \cup {k} |-> IF x = k THEN v ELSE m[x]]

MapRestrict(m, keep) == [x \in keep |-> m[x]]

Range(m) == {m[x] : x \in DOMAIN m}

\* Python frees an object nothing refers to: the heap keeps the objects that the
\* references in `live` name, in their order, and the references are renumbered
Renumber(ref, live) == Cardinality({j \in live : j <= ref})

CompactHeap(h, live) ==
    [n \in 1..Cardinality(live) |-> h[CHOOSE j \in live : Renumber(j, live) = n]]

RenumberMap(m, live) == [x \in DOMAIN m |-> Renumber(m[x], live)]

\* a call and its outcome; removed_*: the chapters of the records a clear removed
Call(op, outcome, chapter, id, other, ref, element) ==
    [op |-> op, outcome |-> outcome, chapter |-> chapter, id |-> id,
     other |-> other, ref |-> ref, element |-> element,
     removed_elements |-> {}, removed_characters |-> {},
     relationship |-> [type |-> "", description |-> "<None>"],
     asked |-> [first_name |-> "<None>", last_name |-> "<None>",
                pronouns |-> "<None>"],
     arg |-> [kind |-> "None", id |-> "<None>"], present |-> FALSE,
     repo |-> "given", generator |-> "", duration |-> [kind |-> "None", count |-> 0, unit |-> ""],
     draw |-> [pronouns |-> "<None>", first |-> "<None>", last |-> "<None>",
               second |-> "<None>", hyphen |-> FALSE, parses |-> TRUE]]

\* last_modified = datetime.now(timezone.utc) in the call: the stamp is the time
\* of the latest call
Touched == "now"

\* a call that does not assign last_modified: the stamp is older than the call
Untouched == "earlier"

(* ------------------------- domain/models.py ---------------------------- *)
\* Character(...): the dataclass; chapter_introduced defaults to None (0), the
\* names to "" and the pronouns to None.  A last name is the sequence of its
\* parts, joined by "-" in the program.
Character(id, chapter_introduced, attr_chapter) ==
    [id |-> id, first_name |-> "", last_name |-> <<"">>, pronouns |-> NoPronouns,
     chapter_introduced |-> chapter_introduced,
     attr_chapter |-> attr_chapter, relationships |-> [x \in {} |-> <<>>]]

\* Pronouns.from_subject: the subject form identifies the pronoun set
Pronouns_from_subject(subject) == subject

\* Pronouns.from_subject raises ValueError for a subject not in _PRONOUN_FORMS
Pronouns_from_subject_raises(subject) == subject \notin PronounSubjects

Relationship(type, description) == [type |-> type, description |-> description]

(* --------------------------- domain/time.py ---------------------------- *)
\* StoryTime.ensure_tz: a naive datetime gets tzinfo=UTC, an aware one is kept
StoryTime_ensure_tz(dt) == IF dt < 0 THEN 0 - dt ELSE dt

\* a sum that drops the timedelta
Plus_Nothing(dt, delta) == dt

\* datetime + timedelta keeps the tzinfo of the datetime
Plus(dt, delta) == IF dt < 0 THEN dt - delta ELSE dt + delta

\* the set handed over as the element's characters is the stage set itself
frozenset_Shared(members) == [members |-> members, is_stage |-> TRUE]

\* frozenset(s): a new immutable set with the members s has now; it is not the
\* object s, so later s.add / s.remove do not reach it
frozenset(members) == [members |-> members, is_stage |-> FALSE]

\* what a write to the stage set does to the stored elements: only an element
\* whose characters are the stage object itself sees the new members
StageWrite(elements, stage) ==
    [i \in 1..Len(elements) |->
        IF elements[i].characters.is_stage
        THEN [elements[i] EXCEPT !.characters.members = stage]
        ELSE elements[i]]

StoryElement(id, time, location, content, chapter, characters) ==
    [id |-> id, time |-> StoryTime_ensure_tz(time), location |-> location,
     content |-> content, chapter |-> chapter, characters |-> characters]

(* ----------------------- persistence/dummy.py -------------------------- *)
\* get_character: self._characters.get(str(id)); 0 is None
Dummy_get_character(id) ==
    IF id \in DOMAIN repo_characters THEN repo_characters[id] ELSE 0

\* get_characters(chapter): the ids whose chapter_introduced field equals chapter
Dummy_get_characters(chapter) ==
    {id \in DOMAIN repo_characters :
        chapter = 0 \/ heap[repo_characters[id]].chapter_introduced = chapter}

\* the sort key of get_elements: (e.chapter, e.time), compared as Python tuples
ChapterTimeLess(a, b) ==
    a.chapter < b.chapter \/ (a.chapter = b.chapter /\ a.time < b.time)

RECURSIVE InsertByChapterTime(_, _)
\* e goes before the first element with a greater key (sorted() is stable)
InsertByChapterTime(sorted, e) ==
    IF sorted = <<>> THEN <<e>>
    ELSE IF ChapterTimeLess(e, Head(sorted)) THEN <<e>> \o sorted
         ELSE <<Head(sorted)>> \o InsertByChapterTime(Tail(sorted), e)

RECURSIVE SortByChapterTime(_)
SortByChapterTime(s) ==
    IF s = <<>> THEN <<>>
    ELSE InsertByChapterTime(SortByChapterTime(SubSeq(s, 1, Len(s) - 1)), s[Len(s)])

\* get_elements(chapter, start_time, end_time); 0 is None
Dummy_get_elements(elements, chapter, start_time, end_time) ==
    LET by_chapter == IF chapter # 0
                      THEN SelectSeq(elements, LAMBDA e : e.chapter = chapter)
                      ELSE elements
        by_time == IF start_time # 0 \/ end_time # 0
                   THEN SelectSeq(by_chapter,
                            LAMBDA e :
                                /\ (start_time = 0
                                    \/ e.time >= StoryTime_ensure_tz(start_time))
                                /\ (end_time = 0
                                    \/ e.time <= StoryTime_ensure_tz(end_time)))
                   ELSE by_chapter
    IN  SortByChapterTime(by_time)

\* an off-by-one threshold: the elements of the chapter itself are kept
KeepElementFrom_Inclusive(element, chapter) == element.chapter <= chapter

\* clear_from_chapter_onwards, elements: keep element.chapter < chapter
KeepElementFrom(element, chapter) == element.chapter < chapter

\* an off-by-one threshold: the characters of the chapter itself are kept
KeepCharacterFrom_Inclusive(character, chapter) ==
    character.chapter_introduced = 0 \/ character.chapter_introduced <= chapter

\* clear_from_chapter_onwards, characters: keep chapter_introduced None or < chapter
KeepCharacterFrom(character, chapter) ==
    character.chapter_introduced = 0 \/ character.chapter_introduced < chapter

Dummy_clear_from_chapter_onwards_elements(elements, chapter) ==
    SelectSeq(elements, LAMBDA e : KeepElementFrom(e, chapter))

Dummy_clear_from_chapter_onwards_characters(characters, chapter) ==
    MapRestrict(characters,
                {k \in DOMAIN characters : KeepCharacterFrom(heap[characters[k]], chapter)})

\* a clear that takes the later chapters along
KeepElementOf_Onwards(element, chapter) == element.chapter < chapter

\* clear_chapter, elements: keep element.chapter != chapter
KeepElementOf(element, chapter) == element.chapter # chapter

\* clear_chapter, characters: keep chapter_introduced != chapter
KeepCharacterOf(character, chapter) == character.chapter_introduced # chapter

Dummy_clear_chapter_elements(elements, chapter) ==
    SelectSeq(elements, LAMBDA e : KeepElementOf(e, chapter))

Dummy_clear_chapter_characters(characters, chapter) ==
    MapRestrict(characters,
                {k \in DOMAIN characters : KeepCharacterOf(heap[characters[k]], chapter)})

\* save_character: str(character.id) in self._characters raises ValueError
Dummy_save_character_rejects(characters, id) == id \in DOMAIN characters

\* save_element: replace the element with the same id, else append
Dummy_save_element(elements, element) ==
    IF \E i \in 1..Len(elements) : elements[i].id = element.id
    THEN [i \in 1..Len(elements) |->
            IF elements[i].id = element.id THEN element ELSE elements[i]]
    ELSE Append(elements, element)

(* ------------------------ generation/faker.py -------------------------- *)
\* what the generator's own source answers in one call: random.choice of the
\* pronouns, the Faker names, random.random() < 0.2 (hyphen); for the LLM the
\* fields of its JSON answer, hyphen standing for a second_last being present
\* and parses for the answer being JSON at all
Draws == [pronouns : {"she", "they"}, first : {"Ann"}, last : {"Lee"},
          second : {"Kim"}, hyphen : BOOLEAN, parses : {TRUE}]

PlainDraw == [pronouns |-> "they", first |-> "Ann", last |-> "Lee",
              second |-> "Kim", hyphen |-> FALSE, parses |-> TRUE]

\* answers of the LLM: a well-formed one, text that is no JSON, a pronoun token
\* outside he/she/they, and objects without the key "first" or "pronouns"
Replies ==
    {PlainDraw,
     [PlainDraw EXCEPT !.parses = FALSE],
     [PlainDraw EXCEPT !.pronouns = "it"],
     [PlainDraw EXCEPT !.first = NoName],
     [PlainDraw EXCEPT !.pronouns = NoPronouns]}

\* FakerCharacterGenerator.generate: the error it raises, "ok" when none
Faker_generate_error(pronouns, draw) ==
    IF Pronouns_from_subject_raises(IF pronouns = NoPronouns THEN draw.pronouns
                                    ELSE pronouns)
    THEN "ValueError: Unknown pronoun"
    ELSE "ok"

\* FakerCharacterGenerator.generate: chapter goes into attributes["chapter_introduced"]
Faker_generate(character_id, first_name, last_name, pronouns, chapter, draw) ==
    LET subject == IF pronouns = NoPronouns THEN draw.pronouns ELSE pronouns
        first == IF first_name # NoName THEN first_name ELSE draw.first
        surname == IF last_name # NoName THEN last_name ELSE draw.last
    IN  [Character(character_id, 0, chapter) EXCEPT
            !.first_name = first,
            !.last_name = IF draw.hyphen THEN <<draw.second, surname>>
                          ELSE <<surname>>,
            !.pronouns = Pronouns_from_subject(subject)]

(* ------------------------- generation/llm.py --------------------------- *)
\* data.get("pronouns", "they")
LLM_pronouns(draw) == IF draw.pronouns = NoPronouns THEN "they" ELSE draw.pronouns

\* LLMCharacterGenerator.generate: the error it re-raises, "ok" when none;
\* json.loads fails on text that is no JSON, Pronouns.from_subject on its token
LLM_generate_error(draw) ==
    IF ~draw.parses THEN "JSONDecodeError"
    ELSE IF Pronouns_from_subject_raises(LLM_pronouns(draw))
    THEN "ValueError: Unknown pronoun"
    ELSE "ok"

\* LLMCharacterGenerator.generate, when nothing is raised: the constraints go
\* into the prompt, the names and pronouns come from the answer (data.get: a
\* missing key gives None)
LLM_generate(character_id, first_name, last_name, pronouns, chapter, draw) ==
    [Character(character_id, 0, chapter) EXCEPT
        !.first_name = draw.first,
        !.last_name = IF draw.hyphen THEN <<draw.last, draw.second>>
                      ELSE <<draw.last>>,
        !.pronouns = Pronouns_from_subject(LLM_pronouns(draw))]

\* uuid4(): an id no Character object carries
FreshIds == {id \in CharIds : \A i \in 1..Len(heap) : heap[i].id # id}

(* ------------------------------ story.py ------------------------------- *)
\* Story.clear_chapter: self._repo.clear_from_chapter_onwards(chapter)
Story_clear_chapter_elements(elements, chapter) ==
    Dummy_clear_from_chapter_onwards_elements(elements, chapter)

Story_clear_chapter_characters(characters, chapter) ==
    Dummy_clear_from_chapter_onwards_characters(characters, chapter)

\* a lookup that answers the oldest character when the id is unknown
Story_lookup_OrOldest(cache, character_id) ==
    IF character_id \in DOMAIN cache THEN cache[character_id]
    ELSE IF Dummy_get_character(character_id) # 0 THEN Dummy_get_character(character_id)
    ELSE IF heap # <<>> THEN 1 ELSE 0

\* Story.get_character: the cached reference, else the repository's (0: not found)
Story_lookup(cache, character_id) ==
    IF character_id \in DOMAIN cache THEN cache[character_id]
    ELSE Dummy_get_character(character_id)

\* Story.get_character: a character found in the repository is cached
Story_cache_after(cache, character_id) ==
    IF character_id \in DOMAIN cache THEN cache
    ELSE IF Dummy_get_character(character_id) # 0
         THEN MapPut(cache, character_id, Dummy_get_character(character_id))
         ELSE cache

\* character.relationships[other] = relationship, on the object itself
SetRelationship(h, ref, other, relationship) ==
    [h EXCEPT ![ref].relationships = MapPut(@, other, relationship)]

\* the call record of a chapter clear, with the chapters of what it removed
Cleared(call, chapter) ==
    LET kept_elements == Story_clear_chapter_elements(repo_elements, chapter)
        kept_characters == Story_clear_chapter_characters(repo_characters, chapter)
    IN  [call EXCEPT
            !.removed_elements =
                {repo_elements[i].chapter : i \in 1..Len(repo_elements)}
                \ {kept_elements[i].chapter : i \in 1..Len(kept_elements)},
            !.removed_characters =
                {heap[repo_characters[k]].chapter_introduced :
                    k \in (DOMAIN repo_characters) \ (DOMAIN kept_characters)}]

(* ---------------------- Story.generate_manuscript ----------------------- *)
Heading(chapter) == [kind |-> "chapter", chapter |-> chapter, location |-> NoLocation,
                     element |-> 0]

SceneHeading(location) == [kind |-> "location", chapter |-> 0, location |-> location,
                           element |-> 0]

Line(element) == [kind |-> "element", chapter |-> 0, location |-> NoLocation,
                  element |-> element.id]

RECURSIVE LocationKeys(_, _)
\* the keys of the dict location_elements, in insertion order
LocationKeys(elements, seen) ==
    IF elements = <<>> THEN <<>>
    ELSE IF Head(elements).location \in seen THEN LocationKeys(Tail(elements), seen)
         ELSE <<Head(elements).location>>
              \o LocationKeys(Tail(elements), seen \cup {Head(elements).location})

RECURSIVE Lines(_)
Lines(elements) ==
    IF elements = <<>> THEN <<>> ELSE <<Line(Head(elements))>> \o Lines(Tail(elements))

RECURSIVE RenderLocations(_, _)
RenderLocations(keys, elements) ==
    IF keys = <<>> THEN <<>>
    ELSE <<SceneHeading(Head(keys))>>
         \o Lines(SelectSeq(elements, LAMBDA e : e.location = Head(keys)))
         \o RenderLocations(Tail(keys), elements)

\* Story.generate_manuscript: the headings and lines of the text, in order
Story_generate_manuscript ==
    LET elements == Dummy_get_elements(repo_elements, current_chapter, 0, 0)
    IN  <<Heading(current_chapter)>>
        \o RenderLocations(LocationKeys(elements, {}), elements)

\* the state after DummyStoryRepository() and Story(..., repo=repo) with chapter = 1
Init ==
    /\ heap = <<>>
    /\ repo_characters = EmptyMap
    /\ repo_elements = <<>>
    /\ next_element_id = 1
    /\ current_stage = {}
    /\ current_chapter = 1
    /\ current_time = 0
    /\ current_location = NoLocation
    /\ character_cache = EmptyMap
    /\ last_modified = Touched
    /\ last = Call("init", "ok", 1, NoId, NoId, 0, 0)
    /\ timeline_events = <<>>
    /\ timeline_rowid = 1
    /\ timeline_chapter = 0
    /\ character_tables = [characters |-> EmptyMap, versions |-> {}, rowid |-> 1]
    /\ manager_time = 0
    /\ manager_location = NoLocation
    /\ saved_time = <<>>

\* Story.__init__ over the repository the previous session used
NewSession(chapter) ==
    /\ current_stage' = {}
    /\ current_chapter' = chapter
    /\ current_time' = 0
    /\ current_location' = NoLocation
    /\ character_cache' = EmptyMap
    /\ last_modified' = Touched
    /\ repo_elements' = Story_clear_chapter_elements(repo_elements, chapter)
    /\ LET kept == Story_clear_chapter_characters(repo_characters, chapter)
       IN  /\ repo_characters' = RenumberMap(kept, Range(kept))
           /\ heap' = CompactHeap(heap, Range(kept))
    /\ last' = Cleared(Call("init", "ok", chapter, NoId, NoId, 0, 0), chapter)
    /\ UNCHANGED next_element_id
    /\ UNCHANGED legacyVars

\* the call record of a constructor that was given no repo argument
ByDefault(call) == [call EXCEPT !.repo = "default"]

\* the state after Story(title, author, faker, llm) with chapter = 1: the store
\* is the DummyStoryRepository() of the parameter default, empty at import
InitDefault ==
    /\ heap = <<>>
    /\ repo_characters = EmptyMap
    /\ repo_elements = <<>>
    /\ next_element_id = 1
    /\ current_stage = {}
    /\ current_chapter = 1
    /\ current_time = 0
    /\ current_location = NoLocation
    /\ character_cache = EmptyMap
    /\ last_modified = Touched
    /\ last = ByDefault(Call("init", "ok", 1, NoId, NoId, 0, 0))
    /\ timeline_events = <<>>
    /\ timeline_rowid = 1
    /\ timeline_chapter = 0
    /\ character_tables = [characters |-> EmptyMap, versions |-> {}, rowid |-> 1]
    /\ manager_time = 0
    /\ manager_location = NoLocation
    /\ saved_time = <<>>

\* one more Story(...) without a repo argument: `repo = DummyStoryRepository()`
\* in the def is evaluated once, so self._repo is the object every such
\* session has, and the constructor's clear_chapter works on it
DefaultSession(chapter) ==
    /\ current_stage' = {}
    /\ current_chapter' = chapter
    /\ current_time' = 0
    /\ current_location' = NoLocation
    /\ character_cache' = EmptyMap
    /\ last_modified' = Touched
    /\ repo_elements' = Story_clear_chapter_elements(repo_elements, chapter)
    /\ LET kept == Story_clear_chapter_characters(repo_characters, chapter)
       IN  /\ repo_characters' = RenumberMap(kept, Range(kept))
           /\ heap' = CompactHeap(heap, Range(kept))
    /\ last' = ByDefault(Cleared(Call("init", "ok", chapter, NoId, NoId, 0, 0),
                                 chapter))
    /\ UNCHANGED next_element_id
    /\ UNCHANGED legacyVars

\* Story.clear_chapter called on the running session
clear_chapter(chapter) ==
    /\ repo_elements' = Story_clear_chapter_elements(repo_elements, chapter)
    /\ LET kept == Story_clear_chapter_characters(repo_characters, chapter)
           live == Range(kept) \cup Range(character_cache)
       IN  /\ repo_characters' = RenumberMap(kept, live)
           /\ character_cache' = RenumberMap(character_cache, live)
           /\ heap' = CompactHeap(heap, live)
    /\ last_modified' = Touched
    /\ last' = Cleared(Call("clear_chapter", "ok", chapter, NoId, NoId, 0, 0), chapter)
    /\ UNCHANGED <<next_element_id, current_stage, current_chapter, current_time,
                   current_location>>
    /\ UNCHANGED legacyVars

\* a caller's repo.save_character(Character(id=id, chapter_introduced=chapter)),
\* the way tests/test_persistence.py fills the store
repo_save_character(id, chapter) ==
    /\ Len(heap) < MaxObjs
    /\ IF Dummy_save_character_rejects(repo_characters, id)
       THEN /\ last' = Call("save_character", "ValueError: already exists", chapter,
                            id, NoId, 0, 0)
            /\ UNCHANGED <<heap, repo_characters>>
       ELSE /\ heap' = Append(heap, Character(id, chapter, 0))
            /\ repo_characters' = MapPut(repo_characters, id, Len(heap) + 1)
            /\ last' = Call("save_character", "ok", chapter, id, NoId,
                            Len(heap) + 1, 0)
    /\ UNCHANGED <<repo_elements, next_element_id, storyVars>>
    /\ UNCHANGED legacyVars

\* a caller's repo.clear_chapter(chapter), the way tests/test_persistence.py
\* clears the store; the session's cache keeps its references
repo_clear_chapter(chapter) ==
    /\ repo_elements' = Dummy_clear_chapter_elements(repo_elements, chapter)
    /\ LET kept == Dummy_clear_chapter_characters(repo_characters, chapter)
           live == Range(kept) \cup Range(character_cache)
       IN  /\ repo_characters' = RenumberMap(kept, live)
           /\ character_cache' = RenumberMap(character_cache, live)
           /\ heap' = CompactHeap(heap, live)
           /\ last' = [Call("repo.clear_chapter", "ok", chapter, NoId, NoId, 0, 0)
                          EXCEPT
                          !.removed_elements =
                              {repo_elements[i].chapter : i \in 1..Len(repo_elements)}
                              \ {repo_elements'[i].chapter :
                                     i \in 1..Len(repo_elements')},
                          !.removed_characters =
                              {heap[repo_characters[k]].chapter_introduced :
                                  k \in (DOMAIN repo_characters) \ (DOMAIN kept)}]
    /\ UNCHANGED <<next_element_id, current_stage, current_chapter, current_time,
                   current_location, last_modified>>
    /\ UNCHANGED legacyVars

\* a caller's repo.save_element(StoryElement(id=uuid4(), ..., chapter=chapter)),
\* the way tests/test_persistence.py fills the store
repo_save_element(chapter, time, location, content) ==
    /\ next_element_id <= MaxStored
    /\ repo_elements' =
           Dummy_save_element(repo_elements,
               StoryElement(next_element_id, time, location, content, chapter,
                            frozenset({})))
    /\ next_element_id' = next_element_id + 1
    /\ last' = Call("save_element", "ok", chapter, NoId, NoId, 0, next_element_id)
    /\ UNCHANGED <<heap, repo_characters, storyVars>>
    /\ UNCHANGED legacyVars

\* Story.set_time
set_time(time) ==
    /\ current_time' = time
    /\ last_modified' = Untouched
    /\ last' = Call("set_time", "ok", 0, NoId, NoId, 0, 0)
    /\ UNCHANGED <<heap, repo_characters, repo_elements, next_element_id,
                   current_stage, current_chapter, current_location, character_cache>>
    /\ UNCHANGED legacyVars

\* Story.set_location
set_location(location) ==
    /\ current_location' = location
    /\ last_modified' = Touched
    /\ last' = Call("set_location", "ok", 0, NoId, NoId, 0, 0)
    /\ UNCHANGED <<heap, repo_characters, repo_elements, next_element_id,
                   current_stage, current_chapter, current_time, character_cache>>
    /\ UNCHANGED legacyVars

\* entering with the stage id already present leaves it out afterwards
Stage_toggle(stage, character_id) ==
    IF character_id \in stage THEN stage \ {character_id} ELSE stage \cup {character_id}

\* self._current_stage.add(character_id)
Stage_add(stage, character_id) == stage \cup {character_id}

\* the whole stage is emptied
Stage_remove_All(stage, character_id) == {}

\* self._current_stage.remove(character_id)
Stage_remove(stage, character_id) == stage \ {character_id}

\* the argument of enter_character / exit_character: None, a str or UUID, a
\* Character object (its id is taken), or a value of another type
NoArg == [kind |-> "None", id |-> NoId]

IdArg(id) == [kind |-> "id", id |-> id]

CharacterArg(id) == [kind |-> "Character", id |-> id]

OtherArg == [kind |-> "int", id |-> NoId]

StageArgs == {NoArg, OtherArg} \cup {IdArg(id) : id \in CharIds}
             \cup {CharacterArg(id) : id \in CharIds}

\* the checks both stage operations make before they touch the stage
Stage_argument_error(character) ==
    IF character.kind = "None" THEN "ValueError"
    ELSE IF character.kind \notin {"id", "Character"} THEN "TypeError"
    ELSE "ok"

\* the call record of a stage operation: its argument, and whether the id was
\* on stage when the call was made
OnStage(call, character) ==
    [call EXCEPT !.arg = character, !.present = character.id \in current_stage]

\* Story.enter_character
enter_character(character) ==
    /\ IF Stage_argument_error(character) # "ok"
       THEN /\ last' = OnStage(Call("enter_character", Stage_argument_error(character),
                                    0, character.id, NoId, 0, 0), character)
            /\ UNCHANGED <<current_stage, repo_elements>>
       ELSE /\ current_stage' = Stage_add(current_stage, character.id)
            /\ repo_elements' = StageWrite(repo_elements, current_stage')
            /\ last' = OnStage(Call("enter_character", "ok", 0, character.id, NoId, 0,
                                    0), character)
    /\ last_modified' = Untouched
    /\ UNCHANGED <<heap, repo_characters, next_element_id, current_chapter,
                   current_time, current_location, character_cache>>
    /\ UNCHANGED legacyVars

\* Story.exit_character
exit_character(character) ==
    /\ IF Stage_argument_error(character) # "ok"
       THEN /\ last' = OnStage(Call("exit_character", Stage_argument_error(character),
                                    0, character.id, NoId, 0, 0), character)
            /\ UNCHANGED <<current_stage, repo_elements>>
       ELSE IF character.id \notin current_stage
       THEN /\ last' = OnStage(Call("exit_character", "KeyError", 0, character.id,
                                    NoId, 0, 0), character)
            /\ UNCHANGED <<current_stage, repo_elements>>
       ELSE /\ current_stage' = Stage_remove(current_stage, character.id)
            /\ repo_elements' = StageWrite(repo_elements, current_stage')
            /\ last' = OnStage(Call("exit_character", "ok", 0, character.id, NoId, 0,
                                    0), character)
    /\ last_modified' = Untouched
    /\ UNCHANGED <<heap, repo_characters, next_element_id, current_chapter,
                   current_time, current_location, character_cache>>
    /\ UNCHANGED legacyVars

\* the call record of an advance_time, with the duration it was given
Advanced(call, duration) == [call EXCEPT !.duration = duration]

\* timedelta(hours=delta)
timedelta(delta) == [kind |-> "timedelta", count |-> delta, unit |-> "hours"]

\* Story.advance_time; the clock of a model run ends at MaxTime
advance_time(delta) ==
    /\ StoryTime_ensure_tz(current_time) + delta <= MaxTime
    /\ IF current_time = 0
       THEN /\ last' = Advanced(Call("advance_time", "UninitializedStoryError", 0,
                                     NoId, NoId, 0, 0), timedelta(delta))
            /\ last_modified' = Untouched
            /\ UNCHANGED current_time
       ELSE /\ current_time' = Plus(current_time, delta)
            /\ last_modified' = Touched
            /\ last' = Advanced(Call("advance_time", "ok", 0, NoId, NoId, 0, 0),
                                timedelta(delta))
    /\ UNCHANGED <<heap, repo_characters, repo_elements, next_element_id,
                   current_stage, current_chapter, current_location, character_cache>>
    /\ UNCHANGED legacyVars

\* the location is asked for before the time
add_element_error_LocationFirst(time, location) ==
    IF location = NoLocation THEN "UninitializedLocationError"
    ELSE IF time = 0 THEN "UninitializedStoryError"
    ELSE "ok"

\* the two checks at the head of add_element, in their order
add_element_error(time, location) ==
    IF time = 0 THEN "UninitializedStoryError"
    ELSE IF location = NoLocation THEN "UninitializedLocationError"
    ELSE "ok"

\* Story.add_element
add_element(content) ==
    /\ next_element_id <= MaxElems
    /\ IF add_element_error(current_time, current_location) # "ok"
       THEN /\ last' = Call("add_element",
                            add_element_error(current_time, current_location), 0,
                            NoId, NoId, 0, 0)
            /\ last_modified' = Untouched
            /\ UNCHANGED <<repo_elements, next_element_id>>
       ELSE /\ repo_elements' =
                  Dummy_save_element(repo_elements,
                      StoryElement(next_element_id, current_time, current_location,
                                   content, current_chapter, frozenset(current_stage)))
            /\ next_element_id' = next_element_id + 1
            /\ last_modified' = Touched
            /\ last' = Call("add_element", "ok", current_chapter, NoId, NoId, 0,
                            next_element_id)
    /\ UNCHANGED <<heap, repo_characters, current_stage, current_chapter,
                   current_time, current_location, character_cache>>
    /\ UNCHANGED legacyVars

\* the call record of create_character, with the constraints it was given
Asked(call, first_name, last_name, pronouns) ==
    [call EXCEPT !.asked = [first_name |-> first_name, last_name |-> last_name,
                            pronouns |-> pronouns]]

\* the call record of create_character, with the generator and what it drew
Drawn(call, generator_type, draw) ==
    [call EXCEPT !.generator = generator_type, !.draw = draw]

\* Story.create_character; character_id = NoId is the default None
create_character(character_id, first_name, last_name, pronouns, generator_type, draw) ==
    /\ Len(heap) < MaxObjs
    /\ IF generator_type \notin {"faker", "llm"}
       THEN /\ last' = Drawn(Asked(Call("create_character",
                                        "ValueError: generator type", 0,
                                        character_id, NoId, 0, 0),
                                   first_name, last_name, pronouns),
                             generator_type, draw)
            /\ last_modified' = Untouched
            /\ UNCHANGED <<heap, repo_characters>>
       ELSE \E id \in CharIds :
            /\ IF character_id = NoId THEN id \in FreshIds ELSE id = character_id
            /\ LET error ==
                       IF generator_type = "faker"
                       THEN Faker_generate_error(pronouns, draw)
                       ELSE LLM_generate_error(draw)
                   character ==
                       IF generator_type = "faker"
                       THEN Faker_generate(id, first_name, last_name, pronouns,
                                           current_chapter, draw)
                       ELSE LLM_generate(id, first_name, last_name, pronouns,
                                         current_chapter, draw)
               IN  IF error # "ok"
                   THEN /\ last' = Drawn(Asked(Call("create_character", error,
                                                    current_chapter, character_id,
                                                    NoId, 0, 0),
                                               first_name, last_name, pronouns),
                                         generator_type, draw)
                        /\ last_modified' = Untouched
                        /\ UNCHANGED <<heap, repo_characters>>
                   ELSE IF Dummy_save_character_rejects(repo_characters, character.id)
                   THEN /\ last' = Drawn(Asked(Call("create_character",
                                                    "ValueError: already exists",
                                                    current_chapter, character_id,
                                                    NoId, 0, 0),
                                               first_name, last_name, pronouns),
                                         generator_type, draw)
                        /\ last_modified' = Untouched
                        /\ UNCHANGED <<heap, repo_characters>>
                   ELSE /\ heap' = Append(heap, character)
                        /\ repo_characters' =
                               MapPut(repo_characters, character.id, Len(heap) + 1)
                        /\ last_modified' = Touched
                        /\ last' = Drawn(Asked(Call("create_character", "ok",
                                                    current_chapter, character.id,
                                                    NoId, Len(heap) + 1, 0),
                                               first_name, last_name, pronouns),
                                         generator_type, draw)
    /\ UNCHANGED <<repo_elements, next_element_id, current_stage, current_chapter,
                   current_time, current_location, character_cache>>
    /\ UNCHANGED legacyVars

\* Story.get_character
get_character(character_id) ==
    /\ LET ref == Story_lookup(character_cache, character_id)
       IN  IF ref # 0
           THEN /\ character_cache' = Story_cache_after(character_cache, character_id)
                /\ last' = Call("get_character", "ok", 0, character_id, NoId, ref, 0)
           ELSE /\ last' = Call("get_character", "ValueError: not found", 0,
                                character_id, NoId, 0, 0)
                /\ UNCHANGED character_cache
    /\ last_modified' = Untouched
    /\ UNCHANGED <<heap, repo_characters, repo_elements, next_element_id,
                   current_stage, current_chapter, current_time, current_location>>
    /\ UNCHANGED legacyVars

\* the call record of add_relationship, with the relationship it was given
Related(call, relationship) == [call EXCEPT !.relationship = relationship]

\* Story.add_relationship
add_relationship(character_id, related_character_id, relationship_type, description) ==
    LET character == Story_lookup(character_cache, character_id)
        cache1 == Story_cache_after(character_cache, character_id)
        related == Story_lookup(cache1, related_character_id)
        cache2 == Story_cache_after(cache1, related_character_id)
        relationship == Relationship(relationship_type, description)
        heap1 == SetRelationship(heap, character, heap[related].id, relationship)
        heap2 == SetRelationship(heap1, related, heap1[character].id, relationship)
    IN  /\ IF character = 0
           THEN /\ last' = Related(Call("add_relationship", "ValueError: not found", 0,
                                character_id, related_character_id, 0, 0), relationship)
                /\ UNCHANGED <<heap, repo_characters, character_cache>>
           ELSE IF related = 0
           THEN /\ last' = Related(Call("add_relationship", "ValueError: not found", 0,
                                character_id, related_character_id, 0, 0), relationship)
                /\ character_cache' = cache1
                /\ UNCHANGED <<heap, repo_characters>>
           ELSE /\ character_cache' = cache2
                /\ heap' = heap2
                /\ IF Dummy_save_character_rejects(repo_characters, heap2[character].id)
                   THEN /\ last' = Related(Call("add_relationship",
                                        "ValueError: already exists", 0, character_id,
                                        related_character_id, 0, 0), relationship)
                        /\ UNCHANGED repo_characters
                   ELSE LET repo1 == MapPut(repo_characters, heap2[character].id,
                                            character)
                        IN  IF Dummy_save_character_rejects(repo1, heap2[related].id)
                            THEN /\ last' = Related(Call("add_relationship",
                                                 "ValueError: already exists", 0,
                                                 character_id, related_character_id, 0, 0), relationship)
                                 /\ repo_characters' = repo1
                            ELSE /\ last' = Related(Call("add_relationship", "ok", 0,
                                                 character_id, related_character_id, 0, 0), relationship)
                                 /\ repo_characters' =
                                        MapPut(repo1, heap2[related].id, related)
        /\ last_modified' = Untouched
        /\ UNCHANGED <<repo_elements, next_element_id, current_stage,
                       current_chapter, current_time, current_location>>
        /\ UNCHANGED legacyVars

(* ------------- storyjupyter/persistence/repositories.py ---------------- *)
Row(id, chapter, timestamp, location, content) ==
    [id |-> id, chapter |-> chapter, timestamp |-> timestamp, location |-> location,
     content |-> content]

\* the WHERE clause of get_events (no tags); `chapter or self.chapter`, 0 is None
TimelineRepository_matches(row, start, end, location, chapter) ==
    LET ch == IF chapter # 0 THEN chapter ELSE timeline_chapter
    IN  /\ (ch = 0 \/ row.chapter = ch)
        /\ (start = 0 \/ row.timestamp >= start)
        /\ (end = 0 \/ row.timestamp <= end)
        /\ (location = NoLocation \/ row.location = location)

\* ORDER BY e.timestamp
TimelineRepository_ordered(rows) ==
    \A i \in 1..Len(rows) - 1 : rows[i].timestamp <= rows[i + 1].timestamp

\* get_events: the row sequences the query may return; SQL leaves the order of
\* rows with equal timestamps open
TimelineRepository_get_events(start, end, location, chapter) ==
    LET matching == {i \in 1..Len(timeline_events) :
                        TimelineRepository_matches(timeline_events[i], start, end,
                                                   location, chapter)}
    IN  {rows \in [1..Cardinality(matching) -> {timeline_events[i] : i \in matching}] :
            /\ \A i \in matching : \E j \in DOMAIN rows : rows[j] = timeline_events[i]
            /\ TimelineRepository_ordered(rows)}

\* TimelineRepository(conn, chapter) over the same database
TimelineRepository_init(chapter) ==
    /\ timeline_chapter' = chapter
    /\ last' = Call("TimelineRepository", "ok", chapter, NoId, NoId, 0, 0)
    /\ UNCHANGED <<timeline_events, timeline_rowid, character_tables, dummyVars,
                   storyVars, managerVars>>

\* TimelineRepository.save_event(event, chapter)
TimelineRepository_save_event(timestamp, location, content, chapter) ==
    /\ timeline_rowid <= MaxRows
    /\ LET ch == IF chapter # 0 THEN chapter ELSE timeline_chapter
       IN  IF ch = 0
           THEN /\ last' = Call("save_event", "ValueError: chapter", 0, NoId, NoId, 0, 0)
                /\ UNCHANGED <<timeline_events, timeline_rowid>>
           ELSE /\ timeline_events' =
                       Append(timeline_events,
                              Row(timeline_rowid, ch, timestamp, location, content))
                /\ timeline_rowid' = timeline_rowid + 1
                /\ last' = Call("save_event", "ok", ch, NoId, NoId, 0,
                                timeline_rowid)
    /\ UNCHANGED <<timeline_chapter, character_tables, dummyVars, storyVars,
                   managerVars>>

\* TimelineRepository.delete_events(chapter)
TimelineRepository_delete_events(chapter) ==
    /\ timeline_events' = SelectSeq(timeline_events, LAMBDA r : r.chapter # chapter)
    /\ last' = [Call("delete_events", "ok", chapter, NoId, NoId, 0, 0)
                    EXCEPT !.removed_elements =
                        {timeline_events[i].chapter : i \in 1..Len(timeline_events)}
                        \cap {chapter}]
    /\ UNCHANGED <<timeline_rowid, timeline_chapter, character_tables, dummyVars,
                   storyVars, managerVars>>

\* CharacterRepository.save_character; in a StoryContext the repository has the
\* chapter of the timeline repository.  INSERT OR REPLACE INTO characters gives
\* the name a new row id; the version row is written for `self.chapter or 1`.
CharacterRepository_save_character(name) ==
    /\ character_tables.rowid <= MaxRows
    /\ character_tables' =
          [characters |-> MapPut(character_tables.characters, name,
                                 character_tables.rowid),
           versions |-> character_tables.versions
                        \cup {[character_id |-> character_tables.rowid,
                               chapter |-> IF timeline_chapter # 0
                                           THEN timeline_chapter ELSE 1]},
           rowid |-> character_tables.rowid + 1]
    /\ last' = Call("CharacterRepository.save_character", "ok",
                    IF timeline_chapter # 0 THEN timeline_chapter ELSE 1, name, NoId,
                    character_tables.rowid, 0)
    /\ UNCHANGED <<timeline_events, timeline_rowid, timeline_chapter, dummyVars,
                   storyVars, managerVars>>

(* --------------------- storyjupyter/context.py ------------------------- *)
\* StoryContext.__enter__: self.timeline.clear_chapter(self.current_chapter),
\* that is delete_events(chapter); the character tables are not touched
StoryContext_enter ==
    /\ timeline_events' =
          SelectSeq(timeline_events, LAMBDA r : r.chapter # timeline_chapter)
    /\ last' = [Call("StoryContext.__enter__", "ok", timeline_chapter, NoId, NoId,
                     0, 0)
                    EXCEPT !.removed_elements =
                        {timeline_events[i].chapter : i \in 1..Len(timeline_events)}
                        \cap {timeline_chapter}]
    /\ UNCHANGED <<timeline_rowid, timeline_chapter, character_tables, dummyVars,
                   storyVars, managerVars>>

(* ----------------- storyjupyter/services/timeline.py ------------------- *)
\* a time of the model is a count of hours; the duration strings of the model
\* are "<count> <unit>", and _DURATION_PATTERNS gives these units their hours
HoursOf == [hour |-> 1, hours |-> 1, day |-> 24, days |-> 24]

\* the result of a failed parse: ParseError is raised
ParseError == 0 - 1

\* the durations handed to advance_time: a timedelta, strings the patterns
\* recognize, a string they do not, and a value that is neither
Durations ==
    {timedelta(1),
     [kind |-> "str", count |-> 1, unit |-> "hour"],
     [kind |-> "str", count |-> 2, unit |-> "hours"],
     [kind |-> "str", count |-> 1, unit |-> "fortnight"],
     [kind |-> "int", count |-> 1, unit |-> ""]}

\* a parse that reads an unknown unit as no time at all
StoryTimelineManager_parse_duration_Lenient(duration) ==
    IF duration.kind = "timedelta" THEN duration.count
    ELSE IF duration.kind # "str" THEN ParseError
    ELSE IF duration.unit \in DOMAIN HoursOf THEN duration.count * HoursOf[duration.unit]
    ELSE 0

\* StoryTimelineManager._parse_duration: the timedelta, in hours, or ParseError
StoryTimelineManager_parse_duration(duration) ==
    IF duration.kind = "timedelta" THEN duration.count
    ELSE IF duration.kind # "str" THEN ParseError
    ELSE IF duration.unit \in DOMAIN HoursOf THEN duration.count * HoursOf[duration.unit]
    ELSE ParseError

\* the times handed to set_time: a datetime or an ISO string of the instant
\* `at` (negative: without offset), and a string that is no ISO time (at = 0)
TimeSpecs ==
    {[kind |-> "datetime", at |-> 1], [kind |-> "datetime", at |-> 0 - 1],
     [kind |-> "str", at |-> 2], [kind |-> "str", at |-> 0]}

\* StoryTimelineManager._parse_time: the datetime in UTC, or ParseError
StoryTimelineManager_parse_time(time) ==
    IF time.at = 0 THEN ParseError ELSE StoryTime_ensure_tz(time.at)

\* datetime.isoformat(): the text of the instant, with the offset when aware
isoformat(dt) ==
    [instant |-> StoryTime_ensure_tz(dt), offset |-> IF dt < 0 THEN "" ELSE "+00:00"]

\* datetime.fromisoformat(text): naive when the text has no offset
fromisoformat(text) == IF text.offset = "" THEN 0 - text.instant ELSE text.instant

\* TimelineRepository.save_time: INSERT OR REPLACE of the row with id = 1
TimelineRepository_save_time(time) == <<isoformat(time)>>

\* TimelineRepository.get_current_time: the row's datetime, 0 (None) without row
TimelineRepository_get_current_time(rows) ==
    IF rows = <<>> THEN 0 ELSE fromisoformat(rows[1])

\* StoryTimelineManager(repository) over the same database: _load_current_time
StoryTimelineManager_init ==
    /\ manager_time' = TimelineRepository_get_current_time(saved_time)
    /\ manager_location' = NoLocation
    /\ last' = Call("StoryTimelineManager", "ok", 0, NoId, NoId, 0, 0)
    /\ UNCHANGED <<saved_time, timeline_events, timeline_rowid, timeline_chapter,
                   character_tables, dummyVars, storyVars>>

\* StoryTimelineManager.set_time
StoryTimelineManager_set_time(time) ==
    /\ IF StoryTimelineManager_parse_time(time) = ParseError
       THEN /\ last' = Call("StoryTimelineManager.set_time", "ParseError", 0, NoId,
                            NoId, 0, 0)
            /\ UNCHANGED <<manager_time, saved_time>>
       ELSE /\ manager_time' = StoryTimelineManager_parse_time(time)
            /\ saved_time' = TimelineRepository_save_time(manager_time')
            /\ last' = Call("StoryTimelineManager.set_time", "ok", 0, NoId, NoId, 0, 0)
    /\ UNCHANGED <<manager_location, timeline_events, timeline_rowid,
                   timeline_chapter, character_tables, dummyVars, storyVars>>

\* StoryTimelineManager.set_location
StoryTimelineManager_set_location(location) ==
    /\ manager_location' = location
    /\ last' = Call("StoryTimelineManager.set_location", "ok", 0, NoId, NoId, 0, 0)
    /\ UNCHANGED <<manager_time, saved_time, timeline_events, timeline_rowid,
                   timeline_chapter, character_tables, dummyVars, storyVars>>

\* StoryTimelineManager.advance_time; the clock of a model run ends at MaxTime
StoryTimelineManager_advance_time(duration) ==
    /\ manager_time + StoryTimelineManager_parse_duration(duration) <= MaxTime
    /\ IF manager_time = 0
       THEN /\ last' = Advanced(Call("StoryTimelineManager.advance_time",
                                     "RuntimeError: Current time not set", 0, NoId,
                                     NoId, 0, 0), duration)
            /\ UNCHANGED manager_time
       ELSE IF StoryTimelineManager_parse_duration(duration) = ParseError
       THEN /\ last' = Advanced(Call("StoryTimelineManager.advance_time",
                                     "RuntimeError: Failed to advance time", 0, NoId,
                                     NoId, 0, 0), duration)
            /\ UNCHANGED manager_time
       ELSE /\ manager_time' =
                   Plus(manager_time, StoryTimelineManager_parse_duration(duration))
            /\ last' = Advanced(Call("StoryTimelineManager.advance_time", "ok", 0,
                                     NoId, NoId, 0, 0), duration)
    /\ UNCHANGED <<manager_location, saved_time, timeline_events, timeline_rowid,
                   timeline_chapter, character_tables, dummyVars, storyVars>>

\* StoryTimelineManager.add_event(content, chapter): the event is saved at the
\* current time and at get_current_location()
StoryTimelineManager_add_event(content, chapter) ==
    /\ timeline_rowid <= MaxRows
    /\ IF manager_time = 0
       THEN /\ last' = Call("StoryTimelineManager.add_event",
                            "RuntimeError: Current time not set", 0, NoId, NoId, 0, 0)
            /\ UNCHANGED <<timeline_events, timeline_rowid>>
       ELSE /\ timeline_events' =
                   Append(timeline_events,
                          Row(timeline_rowid, chapter, manager_time,
                              IF manager_location = NoLocation THEN "unknown"
                              ELSE manager_location, content))
            /\ timeline_rowid' = timeline_rowid + 1
            /\ last' = Call("StoryTimelineManager.add_event", "ok", chapter, NoId,
                            NoId, 0, timeline_rowid)
    /\ UNCHANGED <<timeline_chapter, character_tables, dummyVars, storyVars,
                   managerVars>>

(* ======================= properties of the store ======================= *)

ElementsOf(elements) == {elements[i] : i \in 1..Len(elements)}

StoredCharacter(id) == heap[repo_characters[id]]

\* C1: constructing a session at chapter c leaves no element with chapter >= c
\* and no character with chapter_introduced >= c in the store, and leaves every
\* element and character of a chapter < c in the store, unchanged.
C1_ConstructorClearsFromChapter ==
    [][last'.op = "init" =>
        /\ \A e \in ElementsOf(repo_elements') : e.chapter < last'.chapter
        /\ \A id \in DOMAIN repo_characters' :
              heap'[repo_characters'[id]].chapter_introduced < last'.chapter
        /\ SelectSeq(repo_elements, LAMBDA e : e.chapter < last'.chapter)
               = repo_elements'
        /\ \A id \in DOMAIN repo_characters :
              StoredCharacter(id).chapter_introduced \in 1..(last'.chapter - 1)
              => /\ id \in DOMAIN repo_characters'
                 /\ heap'[repo_characters'[id]] = StoredCharacter(id)]_vars

\* a constructor that removed an element and a character of its chapter or later
\* and kept an element and a character of an earlier chapter
C1_Witness ==
    /\ last.op = "init"
    /\ last.removed_elements # {}
    /\ last.removed_characters # {}
    /\ \E e \in ElementsOf(repo_elements) : e.chapter < last.chapter
    /\ \E id \in DOMAIN repo_characters :
          StoredCharacter(id).chapter_introduced \in 1..(last.chapter - 1)

\* C2: the mid-session rewrite of chapter n clears exactly chapter n: every
\* element and character of a chapter m # n is still in the store afterwards.
C2_ClearsExactlyChapter ==
    [][last'.op = "clear_chapter" =>
        /\ \A e \in ElementsOf(repo_elements) :
              e.chapter # last'.chapter => e \in ElementsOf(repo_elements')
        /\ \A id \in DOMAIN repo_characters :
              StoredCharacter(id).chapter_introduced # last'.chapter
              => /\ id \in DOMAIN repo_characters'
                 /\ heap'[repo_characters'[id]] = StoredCharacter(id)]_vars

\* C3: after the mid-session rewrite of chapter c, get_elements(chapter=c) and
\* get_characters(chapter=c) are empty.
C3_ClearedChapterIsEmpty ==
    last.op = "clear_chapter" =>
        /\ Dummy_get_elements(repo_elements, last.chapter, 0, 0) = <<>>
        /\ Dummy_get_characters(last.chapter) = {}

\* a rewrite of chapter c that removed an element and a character of chapter c
C3_Witness ==
    /\ last.op = "clear_chapter"
    /\ last.chapter \in last.removed_elements
    /\ last.chapter \in last.removed_characters

\* C4: after a chapter clear the cache holds no character the store no longer
\* holds, and get_character never returns a character that is not in the store.
C4_CacheInvalidatedByClear ==
    /\ last.op = "clear_chapter" =>
          \A id \in DOMAIN character_cache :
              /\ id \in DOMAIN repo_characters
              /\ repo_characters[id] = character_cache[id]
    /\ (last.op = "get_character" /\ last.outcome = "ok") =>
          /\ last.id \in DOMAIN repo_characters
          /\ repo_characters[last.id] = last.ref

\* C5: a character that create_character made while the active chapter was k is
\* not in the store after a clear from chapter c onwards with c <= k.
C5_CreatedCharacterDestroyedByClear ==
    last.op \in {"init", "clear_chapter"} =>
        \A id \in DOMAIN repo_characters :
            StoredCharacter(id).attr_chapter = 0
            \/ StoredCharacter(id).attr_chapter < last.chapter

\* C6: the character create_character returns and stores has chapter_introduced
\* equal to the session's active chapter.
C6_CreatedCharacterTaggedWithChapter ==
    (last.op = "create_character" /\ last.outcome = "ok") =>
        /\ heap[last.ref].chapter_introduced = current_chapter
        /\ repo_characters[last.id] = last.ref

\* sorted ascending by the pair (chapter, time)
C7_Sorted(chapters, times) ==
    \A i \in 1..Len(chapters) - 1 :
        \/ chapters[i] < chapters[i + 1]
        \/ chapters[i] = chapters[i + 1] /\ times[i] <= times[i + 1]

\* C7: whatever the filters, the element query returns its results sorted
\* ascending by (chapter, time); for the in-memory store and for the SQL timeline.
C7_QueriesSortedByChapterTime ==
    /\ \A c \in Chapters \cup {0}, from \in Times \cup {0}, to \in Times \cup {0} :
          LET r == Dummy_get_elements(repo_elements, c, from, to)
          IN  C7_Sorted([i \in 1..Len(r) |-> r[i].chapter],
                        [i \in 1..Len(r) |-> r[i].time])
    /\ \A c \in Chapters \cup {0}, from \in Times \cup {0}, to \in Times \cup {0},
          l \in Locations \cup {NoLocation} :
          \A r \in TimelineRepository_get_events(from, to, l, c) :
              C7_Sorted([i \in 1..Len(r) |-> r[i].chapter],
                        [i \in 1..Len(r) |-> r[i].timestamp])

\* the in-memory store alone does keep the order
C7_DummySorted ==
    \A c \in Chapters \cup {0}, from \in Times \cup {0}, to \in Times \cup {0} :
        LET r == Dummy_get_elements(repo_elements, c, from, to)
        IN  C7_Sorted([i \in 1..Len(r) |-> r[i].chapter],
                      [i \in 1..Len(r) |-> r[i].time])

RECURSIVE C8_Scenes(_, _)
\* one heading per maximal run of elements with the same location
C8_Scenes(elements, previous) ==
    IF elements = <<>> THEN <<>>
    ELSE (IF Head(elements).location # previous
          THEN <<SceneHeading(Head(elements).location)>> ELSE <<>>)
         \o <<Line(Head(elements))>>
         \o C8_Scenes(Tail(elements), Head(elements).location)

\* C8: generate_manuscript starts a scene exactly where the location differs from
\* the preceding element's: one heading per contiguous run, then the run's lines.
C8_ManuscriptScenesAreRuns ==
    Story_generate_manuscript
        = <<Heading(current_chapter)>>
          \o C8_Scenes(Dummy_get_elements(repo_elements, current_chapter, 0, 0),
                       NoLocation)

\* C9: create_character with an id that the store or the cache already holds
\* fails as a duplicate and leaves the store as it was.
C9_DuplicateIdRejected ==
    [][(/\ last'.op = "create_character"
        /\ last'.outcome # "ValueError: generator type"
        /\ last'.id \in (DOMAIN repo_characters) \cup (DOMAIN character_cache))
       => /\ last'.outcome = "ValueError: already exists"
          /\ repo_characters' = repo_characters
          /\ heap' = heap]_vars

\* get_character(id), as the session answers it in the current state
C10_Got(id) == heap[Story_lookup(character_cache, id)]

\* C10: for two characters in the store add_relationship returns normally, both
\* characters then list each other with the given type and description, and the
\* store returns the updated characters.
C10_RelationshipSymmetric ==
    [][(/\ last'.op = "add_relationship"
        /\ last'.id # last'.other
        /\ last'.id \in DOMAIN repo_characters
        /\ last'.other \in DOMAIN repo_characters)
       => /\ last'.outcome = "ok"
          /\ last'.other \in DOMAIN (C10_Got(last.id).relationships)'
          /\ (C10_Got(last.id).relationships[last.other])' = last'.relationship
          /\ last'.id \in DOMAIN (C10_Got(last.other).relationships)'
          /\ (C10_Got(last.other).relationships[last.id])' = last'.relationship
          /\ (heap[repo_characters[last.id]])' = (C10_Got(last.id))'
          /\ (heap[repo_characters[last.other]])' = (C10_Got(last.other))']_vars


\* the element that a successful add_element has just stored
Added(elements, id) == CHOOSE e \in ElementsOf(elements) : e.id = id

\* C11: a recorded element is a snapshot: enter_character, exit_character,
\* set_time, advance_time and set_location leave every stored element with the
\* characters, time, location, chapter and content it was recorded with.
C11_ElementIsSnapshot ==
    [][last'.op \in {"enter_character", "exit_character", "set_time",
                     "advance_time", "set_location"}
       => repo_elements' = repo_elements]_vars

\* a stage change after an element was recorded: the element's characters are
\* no longer the stage
C11_Witness ==
    /\ last.op \in {"enter_character", "exit_character"}
    /\ last.outcome = "ok"
    /\ \E e \in ElementsOf(repo_elements) :
          /\ e.characters.members # current_stage
          /\ e.characters.members # {}

\* C12: with time and location set, add_element stores exactly one new element:
\* its time and location equal the cursor's, its chapter is the active chapter,
\* its characters are the stage, and its id is one no stored element has.
C12_AddedElementCarriesCursor ==
    [][(/\ last'.op = "add_element"
        /\ current_time # 0
        /\ current_location # NoLocation)
       => /\ last'.outcome = "ok"
          /\ \A e \in ElementsOf(repo_elements) : e.id # last'.element
          /\ \E e \in ElementsOf(repo_elements') : e.id = last'.element
          /\ LET e == Added(repo_elements', last'.element)
             IN  /\ e.time = current_time
                 /\ e.location = current_location
                 /\ e.chapter = current_chapter
                 /\ e.characters.members = current_stage
                 /\ e.content = "text"
                 /\ ElementsOf(repo_elements') = ElementsOf(repo_elements) \cup {e}
                 /\ Len(repo_elements') = Len(repo_elements) + 1]_vars

\* C13: add_element fails with UninitializedStoryError when no time is set and
\* with UninitializedLocationError when the time is set and the location is
\* not; a failing call stores nothing.
C13_AddElementNeedsCursor ==
    [][last'.op = "add_element"
       => /\ current_time = 0 => last'.outcome = "UninitializedStoryError"
          /\ (current_time # 0 /\ current_location = NoLocation)
                => last'.outcome = "UninitializedLocationError"
          /\ last'.outcome # "ok"
                => /\ repo_elements' = repo_elements
                   /\ next_element_id' = next_element_id]_vars

\* a call refused for the missing location, over a store that holds elements
C13_Witness ==
    /\ last.op = "add_element"
    /\ last.outcome = "UninitializedLocationError"
    /\ current_time # 0
    /\ repo_elements # <<>>

\* C14: a character generated with first_name f, last_name l and pronouns p has
\* first name f, last name l and pronoun subject p, whatever the generator's
\* own random or LLM-supplied choices are; for both generators.
C14_GeneratorsHonorConstraints ==
    (/\ last.op = "create_character"
     /\ last.outcome = "ok"
     /\ last.asked.first_name # NoName
     /\ last.asked.last_name # NoName
     /\ last.asked.pronouns # NoPronouns)
    => /\ heap[last.ref].first_name = last.asked.first_name
       /\ heap[last.ref].last_name = <<last.asked.last_name>>
       /\ heap[last.ref].pronouns = last.asked.pronouns

\* C15: fetching a character that was created or saved, and that no chapter clear
\* has removed, returns a character with the id, first name, last name,
\* pronouns and chapter_introduced of the one in the store.
C15_FetchReturnsStoredCharacter ==
    (/\ last.op = "get_character"
     /\ last.outcome = "ok"
     /\ last.id \in DOMAIN repo_characters)
    => /\ heap[last.ref].id = StoredCharacter(last.id).id
       /\ heap[last.ref].first_name = StoredCharacter(last.id).first_name
       /\ heap[last.ref].last_name = StoredCharacter(last.id).last_name
       /\ heap[last.ref].pronouns = StoredCharacter(last.id).pronouns
       /\ heap[last.ref].chapter_introduced
             = StoredCharacter(last.id).chapter_introduced

\* C18: every successful set_time, advance_time, set_location, enter_character,
\* exit_character, add_element, create_character, add_relationship and chapter
\* clear sets the metadata's last_modified to the time of the call.
C18_MutationsTouchMetadata ==
    [][(/\ last'.op \in {"set_time", "advance_time", "set_location",
                         "enter_character", "exit_character", "add_element",
                         "create_character", "add_relationship", "clear_chapter"}
        /\ last'.outcome = "ok")
       => last_modified' = Touched]_vars

\* the chapters of the version rows of the characters table's current rows
LegacyCharacterChapters(tables) ==
    {v.chapter : v \in {w \in tables.versions :
                            w.character_id \in Range(tables.characters)}}

\* C19: a chapter rewrite treats elements and characters alike: for every
\* chapter m that had both, the elements of m are gone afterwards if and only
\* if the characters introduced in m are gone; for the session's clear and for
\* the context's entry.
C19_RewriteInLockstep ==
    [][/\ last'.op \in {"init", "clear_chapter"}
          => \A m \in Chapters :
                (/\ \E e \in ElementsOf(repo_elements) : e.chapter = m
                 /\ \E id \in DOMAIN repo_characters :
                       StoredCharacter(id).chapter_introduced = m)
                => ((\A e \in ElementsOf(repo_elements') : e.chapter # m)
                    <=> (\A id \in DOMAIN repo_characters' :
                            heap'[repo_characters'[id]].chapter_introduced # m))
       /\ last'.op = "StoryContext.__enter__"
          => \A m \in Chapters :
                (/\ \E i \in 1..Len(timeline_events) : timeline_events[i].chapter = m
                 /\ m \in LegacyCharacterChapters(character_tables))
                => ((\A i \in 1..Len(timeline_events') :
                        timeline_events'[i].chapter # m)
                    <=> m \notin LegacyCharacterChapters(character_tables'))]_vars

\* the chapter a character was created in: the field, else the attribute the
\* generators write
IntroducedIn(character) ==
    IF character.chapter_introduced # 0 THEN character.chapter_introduced
    ELSE character.attr_chapter

\* C20: after the mid-session rewrite of chapter n the active chapter is n, and
\* an element added or a character created right after it is tagged with n.
C20_RewriteSwitchesChapter ==
    [][/\ last'.op = "clear_chapter" => current_chapter' = last'.chapter
       /\ (last.op = "clear_chapter" /\ last'.op = "add_element"
               /\ last'.outcome = "ok")
          => Added(repo_elements', last'.element).chapter = last.chapter
       /\ (last.op = "clear_chapter" /\ last'.op = "create_character"
               /\ last'.outcome = "ok")
          => IntroducedIn(heap'[last'.ref]) = last.chapter]_vars

\* C16: enter_character(x) right after enter_character(x) leaves the stage as
\* the first call left it, with x on it; an element added right after an
\* enter_character(x) lists x, and lists the stage.
C16_EnterIsIdempotent ==
    [][/\ (/\ last.op = "enter_character" /\ last.outcome = "ok"
           /\ last'.op = "enter_character" /\ last'.outcome = "ok"
           /\ last'.id = last.id)
          => /\ current_stage' = current_stage
             /\ last'.id \in current_stage'
       /\ (/\ last.op = "enter_character" /\ last.outcome = "ok"
           /\ last'.op = "add_element" /\ last'.outcome = "ok")
          => /\ last.id \in Added(repo_elements', last'.element).characters.members
             /\ Added(repo_elements', last'.element).characters.members
                    = current_stage]_vars

\* an enter_character for an id that was on stage already
C16_Witness ==
    /\ last.op = "enter_character"
    /\ last.outcome = "ok"
    /\ last.present
    /\ last.id \in current_stage

\* C17: exit_character(x) removes exactly x when x is on stage and fails with
\* KeyError when it is not; a call without argument fails with ValueError, one
\* with an argument of another type with TypeError, and every failing
\* enter_character or exit_character leaves the stage as it was.
C17_ExitRemovesExactly ==
    [][last'.op \in {"enter_character", "exit_character"}
       => /\ last'.arg.kind = "None" => last'.outcome = "ValueError"
          /\ last'.arg.kind = "int" => last'.outcome = "TypeError"
          /\ (last'.op = "exit_character" /\ last'.arg.kind \in {"id", "Character"})
                => IF last'.arg.id \in current_stage
                   THEN /\ last'.outcome = "ok"
                        /\ current_stage' = current_stage \ {last'.arg.id}
                   ELSE last'.outcome = "KeyError"
          /\ last'.outcome # "ok" => current_stage' = current_stage]_vars

\* an exit that left another character on stage
C17_Witness ==
    /\ last.op = "exit_character"
    /\ last.outcome = "ok"
    /\ last.present
    /\ current_stage # {}
    /\ last.id \notin current_stage

\* C21: re-executing a chapter is repeatable: when a session at chapter c
\* created a character with the explicit id x, a create_character(x) made right
\* after a new session was constructed at chapter c over the same store succeeds
\* (no duplicate-identifier error).
C21_ReexecutionRepeatable ==
    [][(/\ last.op = "init"
        /\ last'.op = "create_character"
        /\ last'.id \in CharIds
        /\ last'.outcome # "ValueError: generator type"
        /\ \E i \in 1..Len(heap) :
              /\ heap[i].id = last'.id
              /\ heap[i].attr_chapter = current_chapter)
       => last'.outcome = "ok"]_vars

\* an id that is neither in the session's cache nor in the store
Missing(id) == id \notin DOMAIN character_cache /\ id \notin DOMAIN repo_characters

\* C22: get_character(id) fails with the not-found error when id is neither in
\* the cache nor in the store; add_relationship(a, b, ...) fails with that error
\* when a or b is missing, and then no character's relationships map is changed
\* and no character is saved.
C22_MissingCharacterNotFound ==
    [][/\ (last'.op = "get_character" /\ Missing(last'.id))
          => /\ last'.outcome = "ValueError: not found"
             /\ heap' = heap
             /\ repo_characters' = repo_characters
       /\ (last'.op = "add_relationship" /\ (Missing(last'.id) \/ Missing(last'.other)))
          => /\ last'.outcome = "ValueError: not found"
             /\ heap' = heap
             /\ repo_characters' = repo_characters]_vars

\* an add_relationship whose first character is stored and whose second is
\* missing, in a store that holds a relationship already
C22_Witness ==
    /\ last.op = "add_relationship"
    /\ last.outcome = "ValueError: not found"
    /\ last.id \in DOMAIN repo_characters
    /\ Missing(last.other)
    /\ \E i \in 1..Len(heap) : DOMAIN heap[i].relationships # {}

\* C23: the store's clear_chapter(n) deletes exactly the elements whose chapter
\* is n and exactly the characters whose chapter_introduced is n; every element
\* and character of another chapter, earlier or later, is returned by the store
\* afterwards, unchanged.
C23_StoreClearsExactlyChapter ==
    [][last'.op = "repo.clear_chapter" =>
        /\ \A e \in ElementsOf(repo_elements) :
              e \in ElementsOf(Dummy_get_elements(repo_elements', 0, 0, 0))
              <=> e.chapter # last'.chapter
        /\ ElementsOf(repo_elements') \subseteq ElementsOf(repo_elements)
        /\ DOMAIN repo_characters' \subseteq DOMAIN repo_characters
        /\ \A id \in DOMAIN repo_characters :
              /\ id \in DOMAIN repo_characters'
                 <=> StoredCharacter(id).chapter_introduced # last'.chapter
              /\ id \in DOMAIN repo_characters'
                 => heap'[repo_characters'[id]] = StoredCharacter(id)]_vars

\* a clear of chapter 1 that removed an element and a character of chapter 1
\* and left an element and a character of the later chapter 2
C23_Witness ==
    /\ last.op = "repo.clear_chapter"
    /\ last.chapter = 1
    /\ 1 \in last.removed_elements
    /\ 1 \in last.removed_characters
    /\ \E e \in ElementsOf(repo_elements) : e.chapter = 2
    /\ \E id \in DOMAIN repo_characters : StoredCharacter(id).chapter_introduced = 2

\* C24: advance_time(d) fails with the uninitialized-state error and leaves
\* the cursor and the store unchanged when no time has been set; when the
\* current time is t it sets the current time to exactly t + d and changes
\* neither the location, the stage nor any stored element.  For the session
\* and for the timeline manager.
C24_AdvanceTimeAddsExactly ==
    [][/\ last'.op = "advance_time"
          => /\ current_time = 0
                => /\ last'.outcome = "UninitializedStoryError"
                   /\ UNCHANGED <<current_time, current_location, current_stage,
                                  current_chapter, dummyVars>>
             /\ current_time # 0
                => /\ last'.outcome = "ok"
                   /\ StoryTime_ensure_tz(current_time')
                          = StoryTime_ensure_tz(current_time) + last'.duration.count
                   /\ current_time' < 0 <=> current_time < 0
                   /\ UNCHANGED <<current_location, current_stage, repo_elements>>
       /\ (/\ last'.op = "StoryTimelineManager.advance_time"
           /\ StoryTimelineManager_parse_duration(last'.duration) # ParseError)
          => /\ manager_time = 0
                => /\ last'.outcome = "RuntimeError: Current time not set"
                   /\ UNCHANGED <<managerVars, timeline_events>>
             /\ manager_time # 0
                => /\ last'.outcome = "ok"
                   /\ manager_time' = manager_time
                          + StoryTimelineManager_parse_duration(last'.duration)
                   /\ UNCHANGED <<manager_location, timeline_events>>]_vars

\* the session's clock advanced with a character on stage and an element
\* stored, after the timeline manager's clock advanced past a stored event
C24_Witness ==
    /\ last.op = "advance_time"
    /\ last.outcome = "ok"
    /\ current_stage # {}
    /\ repo_elements # <<>>
    /\ timeline_events # <<>>
    /\ manager_time > timeline_events[1].timestamp

\* C25: when a time is set and advance_time is given a duration string that
\* is not recognized, the call fails with an error that differs from the error
\* of an uninitialized time, and the current time is left unchanged.
C25_UnrecognizedDurationFails ==
    [][(/\ last'.op = "StoryTimelineManager.advance_time"
        /\ manager_time # 0
        /\ last'.duration.kind = "str"
        /\ last'.duration.unit \notin DOMAIN HoursOf)
       => /\ last'.outcome \notin {"ok", "RuntimeError: Current time not set"}
          /\ manager_time' = manager_time
          /\ saved_time' = saved_time]_vars

\* a failed advance by "1 fortnight" from a time that was set and saved
C25_Witness ==
    /\ last.op = "StoryTimelineManager.advance_time"
    /\ last.duration.unit = "fortnight"
    /\ last.outcome = "RuntimeError: Failed to advance time"
    /\ manager_time # 0
    /\ saved_time # <<>>

\* C29: after every successful set_time or advance_time of the timeline
\* manager the saved current-time row equals the manager's current time, so a
\* timeline manager constructed later over the same database starts from the
\* time the previous one reached.
C29_SavedClockFollows ==
    [][/\ (/\ last'.op \in {"StoryTimelineManager.set_time",
                            "StoryTimelineManager.advance_time"}
           /\ last'.outcome = "ok")
          => TimelineRepository_get_current_time(saved_time') = manager_time'
       /\ (last'.op = "StoryTimelineManager" /\ manager_time # 0)
          => manager_time' = manager_time]_vars

\* an answer of the LLM that is no JSON, lacks a required name or the pronouns,
\* or carries a pronoun token outside he/she/they
Malformed(draw) ==
    \/ ~draw.parses
    \/ draw.first = NoName
    \/ draw.last = NoName
    \/ draw.pronouns \notin PronounSubjects

\* C26: when the LLM returns malformed output or a pronoun token outside
\* {he, she, they}, generation fails with an error: create_character returns no
\* character and persists nothing.
C26_MalformedAnswerFails ==
    [][(/\ last'.op = "create_character"
        /\ last'.generator = "llm"
        /\ Malformed(last'.draw))
       => /\ last'.outcome # "ok"
          /\ heap' = heap
          /\ repo_characters' = repo_characters]_vars

\* C27: every id on the stage is the id of a character in the store, and an
\* element just recorded lists only ids of characters in the store.
C27_StageIsStored ==
    /\ current_stage \subseteq DOMAIN repo_characters
    /\ (last.op = "add_element" /\ last.outcome = "ok")
       => Added(repo_elements, last.element).characters.members
              \subseteq DOMAIN repo_characters

\* C28: every key of a stored character's relationships map is the id of a
\* character in the store.
C28_RelationshipsAreStored ==
    \A id \in DOMAIN repo_characters :
        DOMAIN StoredCharacter(id).relationships \subseteq DOMAIN repo_characters

\* C30: two sessions constructed without a repository argument have
\* independent stores: constructing the second one (its constructor's chapter
\* clear included) changes neither the elements nor the characters that the
\* first one reads.
C30_DefaultStoresIndependent ==
    [][(last'.op = "init" /\ last'.repo = "default")
       => /\ repo_elements' = repo_elements
          /\ repo_characters' = repo_characters]_vars

\* the store under chapter rewrites: sessions, chapter clears, stored records
Next ==
    \/ \E c \in Chapters : NewSession(c)
    \/ \E c \in Chapters : clear_chapter(c)
    \/ \E id \in CharIds, c \in Chapters : repo_save_character(id, c)
    \/ \E c \in Chapters : repo_save_element(c, 1, "Test", "text")
    \/ \E id \in CharIds \cup {NoId}, g \in GeneratorTypes :
          create_character(id, NoName, NoName, NoPronouns, g, PlainDraw)

Spec == Init /\ [][Next]_vars

\* the character registry: creation, lookup through the cache, chapter clears
NextRegistry ==
    \/ \E c \in Chapters : NewSession(c)
    \/ \E c \in Chapters : clear_chapter(c)
    \/ \E id \in CharIds, c \in Chapters : repo_save_character(id, c)
    \/ \E id \in CharIds \cup {NoId}, g \in GeneratorTypes :
          create_character(id, NoName, NoName, NoPronouns, g, PlainDraw)
    \/ \E id \in CharIds : get_character(id)

SpecRegistry == Init /\ [][NextRegistry]_vars

\* the store on its own: records saved and chapters cleared by a caller
NextStore ==
    \/ \E id \in CharIds, c \in Chapters : repo_save_character(id, c)
    \/ \E c \in Chapters : repo_save_element(c, 1, "Test", "text")
    \/ \E id \in CharIds :
          create_character(id, NoName, NoName, NoPronouns, "faker", PlainDraw)
    \/ \E c \in Chapters : repo_clear_chapter(c)

SpecStore == Init /\ [][NextStore]_vars

\* relationships between stored characters
NextRelations ==
    \/ \E c \in Chapters : clear_chapter(c)
    \/ \E id \in CharIds, c \in Chapters : repo_save_character(id, c)
    \/ \E id \in CharIds :
          create_character(id, NoName, NoName, NoPronouns, "faker", PlainDraw)
    \/ \E id \in CharIds : get_character(id)
    \/ \E a \in CharIds, b \in CharIds, t \in RelTypes, d \in Descriptions :
          add_relationship(a, b, t, d)

SpecRelations == Init /\ [][NextRelations]_vars

\* lookups: characters that are stored, cached or missing
NextLookup ==
    \/ \E c \in Chapters : clear_chapter(c)
    \/ \E id \in CharIds, c \in Chapters : repo_save_character(id, c)
    \/ \E id \in CharIds : get_character(id)
    \/ \E a \in CharIds, b \in CharIds : add_relationship(a, b, "sibling", NoDescription)

SpecLookup == Init /\ [][NextLookup]_vars

\* authoring: the cursor and the elements of the timeline
NextTimeline ==
    \/ \E c \in Chapters : NewSession(c)
    \/ \E t \in Times \cup {0 - 1} : set_time(t)
    \/ \E l \in Locations : set_location(l)
    \/ \E c \in Contents : add_element(c)

SpecTimeline == Init /\ [][NextTimeline]_vars

\* character generation: the constraints of the call and the generator's draw
NextGenerators ==
    \/ \E c \in Chapters : NewSession(c)
    \/ \E id \in CharIds \cup {NoId}, f \in {NoName, "John"}, l \in {NoName, "Doe"},
          p \in {NoPronouns, "he"}, g \in {"faker", "llm"}, d \in Draws :
          create_character(id, f, l, p, g, d)

SpecGenerators == Init /\ [][NextGenerators]_vars

\* the LLM generator and the answers of its collaborator
NextLLM ==
    \/ \E c \in Chapters : NewSession(c)
    \/ \E id \in CharIds \cup {NoId}, d \in Replies :
          create_character(id, NoName, NoName, NoPronouns, "llm", d)

SpecLLM == Init /\ [][NextLLM]_vars

\* the stage: who is present when an element is recorded
NextStage ==
    \/ \E t \in {1, 0 - 1} : set_time(t)
    \/ advance_time(1)
    \/ set_location("Cafe")
    \/ \E a \in StageArgs : enter_character(a)
    \/ \E a \in StageArgs : exit_character(a)
    \/ Len(repo_elements) < MaxCast /\ add_element("text")

SpecStage == Init /\ [][NextStage]_vars

\* sessions constructed without a repo argument, and what they write
NextDefault ==
    \/ \E c \in Chapters : DefaultSession(c)
    \/ set_time(1)
    \/ set_location("Cafe")
    \/ add_element("text")
    \/ \E id \in CharIds :
          create_character(id, NoName, NoName, NoPronouns, "faker", PlainDraw)

SpecDefault == InitDefault /\ [][NextDefault]_vars

\* the two clocks: the session's cursor and the timeline manager's current time
NextClock ==
    \/ \E t \in {1, 0 - 1} : set_time(t)
    \/ advance_time(1)
    \/ set_location("Cafe")
    \/ enter_character(IdArg("alice"))
    \/ repo_elements = <<>> /\ add_element("text")
    \/ StoryTimelineManager_set_time([kind |-> "datetime", at |-> 1])
    \/ StoryTimelineManager_set_location("Cafe")
    \/ \E d \in {timedelta(1), [kind |-> "str", count |-> 1, unit |-> "hour"]} :
          StoryTimelineManager_advance_time(d)
    \/ timeline_events = <<>> /\ StoryTimelineManager_add_event("text", 1)

SpecClock == Init /\ [][NextClock]_vars

\* the SQL timeline of the first implementation
NextLegacy ==
    \/ \E c \in Chapters \cup {0} : TimelineRepository_init(c)
    \/ \E t \in Times, l \in Locations, c \in Chapters \cup {0} :
          TimelineRepository_save_event(t, l, "text", c)
    \/ \E c \in Chapters : TimelineRepository_delete_events(c)

SpecLegacy == Init /\ [][NextLegacy]_vars

\* the timeline manager of the first implementation and its saved clock
NextManager ==
    \/ StoryTimelineManager_init
    \/ \E t \in TimeSpecs : StoryTimelineManager_set_time(t)
    \/ StoryTimelineManager_set_location("Cafe")
    \/ \E d \in Durations : StoryTimelineManager_advance_time(d)
    \/ StoryTimelineManager_add_event("text", 1)

SpecManager == Init /\ [][NextManager]_vars

\* the story context of the first implementation: events and characters of a
\* chapter, and the entry that re-opens the chapter
NextContext ==
    \/ \E c \in Chapters \cup {0} : TimelineRepository_init(c)
    \/ TimelineRepository_save_event(1, "Cafe", "text", 0)
    \/ \E name \in CharIds : CharacterRepository_save_character(name)
    \/ StoryContext_enter

SpecContext == Init /\ [][NextContext]_vars
====
